---- MODULE Spec2Model ----
(***************************************************************************)
(* tacc-sync: five stage workers (syncer = Planner, retriever, globus_xfer *)
(* = Transferrer, reaper, finisher) that communicate through directories   *)
(* of JSON files.  The model keeps the file system (where each request and *)
(* work-unit file is, whether its content parses, which globus_task_id     *)
(* values it holds, which staged directories exist) and the position of    *)
(* every stage inside its work cycle.  One step of the model is one file   *)
(* system operation or one external CLI call of one stage.                 *)
(***************************************************************************)
EXTENDS Integers, FiniteSets, Sequences, TLC

(* ---------------------------------------------------------------------- *)
(* Bounds and configuration                                                *)
(* ---------------------------------------------------------------------- *)
NumRequests == 2
NumUnits == 2
MaxFiles == 2
MaxKills == 1
MaxSubmits == 3

Requests == 1..NumRequests
Units == 1..NumUnits

(* the request that a work unit was derived from; the last request matches *)
(* no file in the archive and so has no work unit at all                   *)
ReqOf(u) == IF NumRequests = 1 THEN 1 ELSE ((u - 1) % (NumRequests - 1)) + 1
UnitsOf(r) == {u \in Units : ReqOf(u) = r}

(* TaccSyncWork.files: unit 1 has MaxFiles files, the others one file      *)
NFiles(u) == IF u = 1 THEN MaxFiles ELSE 1
Files(u) == 1..NFiles(u)

(* TaccSyncFile.size is 1 for every file; TaccSyncWork.size is the sum     *)
FileSize == 1
Size(u) == NFiles(u) * FileSize

(* TRANSFER_QUOTA: the buffer holds exactly the largest work unit          *)
TRANSFER_QUOTA == MaxFiles * FileSize

(* directories *)
INBOX_PLANNER == "planner_inbox"
INBOX_FINISHER == "finisher_inbox"
FINISHED == "finished"
HPSS_DIR == "hpss_dir"
GLOBUS_DIR == "globus_dir"
REAPER_DIR == "reaper_dir"
WORK_FINISHED == "work_finished"
Q_RETRIEVER == "quarantine_retriever"
Q_GLOBUS == "quarantine_globus"
Q_REAPER == "quarantine_reaper"
ABSENT == "absent"

WorkDirs == {HPSS_DIR, GLOBUS_DIR, REAPER_DIR, WORK_FINISHED,
             Q_RETRIEVER, Q_GLOBUS, Q_REAPER}

(* the directories the finisher scans, in the order it scans them *)
check_dirs == <<HPSS_DIR, GLOBUS_DIR, REAPER_DIR>>

(* statuses that `globus task show` reports; OTHER is any undocumented one *)
Status == {"ACTIVE", "INACTIVE", "SUCCEEDED", "FAILED", "OTHER"}
(* codes that `globus transfer` reports *)
Code == {"Accepted", "Rejected"}

VARIABLES
    reqLoc,     \* request -> directory holding <request_id>.json
    loc,        \* unit -> directory holding <work_id>.json, or ABSENT
    valid,      \* unit -> <work_id>.json parses as a TaccSyncWork
    ids,        \* unit -> files whose globus_task_id is in <work_id>.json
    safety,     \* unit -> <work_id>.json.safety exists in GLOBUS_DIR
    staged,     \* unit -> TRANSFER_DIR/<work_id>/ exists with its files
    submits,    \* unit -> file -> number of globus transfers submitted
    p_pc, p_todo, p_cur, p_i,
    r_pc, r_todo, r_cur, r_admitted,
    r_deferred, \* the unit whose size ended the retriever's cycle, 0 if none
    space_allowed,  \* the retriever's TRANSFER_QUOTA, read at startup
    t_pc, t_todo, t_cur, t_i, t_mem, t_finished, t_updated,
    t_polled,   \* files of the last unit processed whose poll said SUCCEEDED
    t_seen,     \* what the globus CLI answered for the last unit processed
    x_pc, x_todo, x_cur,
    f_pc, f_todo, f_cur, f_dir, f_files, f_load,
    kills,      \* number of times a stage process was killed so far
    \* the Planner working on one request (syncer.rs process_sync_request)
    file_metadata,  \* the lines hsi printed for the request's files
    pl_pc, pl_i,    \* position of the Planner; lines parsed so far
    hpss_files,     \* Vec<HpssFile> built by parse_tape_metadata
    tape_groups,    \* Vec<Vec<HpssFile>> built by group_files_by_tape
    written,        \* the work units the running Planner wrote, in write order
    work_dir,       \* the work units in WORK_DIR, whichever process wrote them
    \* the Transferrer computing one destination (execute_globus_transfer)
    hpss_base_path, tacc_base_path,  \* HPSS_BASE_PATH, TACC_BASE_PATH
    d_hpss_path,    \* file.hpss_path
    d_pc,           \* position inside execute_globus_transfer
    data_warehouse_path,  \* the slice of hpss_path after the base path
    dst_file,       \* the destination path given to globus transfer
    \* one stage process and its inbox, outbox and quarantine directories
    s_stage,        \* which binary runs
    s_content,      \* entry -> what the inbox file holds
    s_loc,          \* entry -> directory that holds it
    s_todo,         \* entries listed in this cycle and not yet visited
    s_pc,           \* "loop", or "aborted" after a panic
    s_cause,        \* what the process panicked in
    s_fetch,        \* entry -> how the hsi batch copy of the unit ended
    s_failed,       \* the entry whose rename failed, 0 if none
    \* the fields of a TaccSyncFile that serde writes and reads
    file_fields

planVars == <<file_metadata, pl_pc, pl_i, hpss_files, tape_groups, written,
             work_dir>>
destVars == <<hpss_base_path, tacc_base_path, d_hpss_path, d_pc,
              data_warehouse_path, dst_file>>
stageVars == <<s_stage, s_content, s_loc, s_todo, s_pc, s_cause, s_fetch,
               s_failed>>
sideVars == <<planVars, destVars, stageVars, file_fields>>
fsVars == <<reqLoc, loc, valid, ids, safety, staged, submits>>
pVars == <<p_pc, p_todo, p_cur, p_i>>
rVars == <<r_pc, r_todo, r_cur, r_admitted, r_deferred, space_allowed>>
tVars == <<t_pc, t_todo, t_cur, t_i, t_mem, t_finished, t_updated, t_polled,
          t_seen>>
xVars == <<x_pc, x_todo, x_cur>>
fVars == <<f_pc, f_todo, f_cur, f_dir, f_files, f_load>>
vars == <<fsVars, pVars, rVars, tVars, xVars, fVars, kills, sideVars>>

(* ---------------------------------------------------------------------- *)
(* lib.rs                                                                  *)
(* ---------------------------------------------------------------------- *)
(* the .json entries of a work directory; <id>.json.safety is not one      *)
find_json_files_in_directory(dir) == {u \in Units : loc[u] = dir}

(* File::open(..).expect(..) panics on a missing file; serde errors are Err *)
load_work_from_file(u, dir) ==
    IF loc[u] # dir THEN "panic"
    ELSE IF valid[u] THEN "Ok" ELSE "Err"

(* a plausible slip: the file is renamed to a path without its file name, *)
(* so that no <work_id>.json exists after the move                       *)
move_to_outbox_unjoined(u, dest_dir) == loc' = [loc EXCEPT ![u] = ABSENT]

(* fs::rename of <work_id>.json into dest_dir *)
move_to_outbox(u, dest_dir) == loc' = [loc EXCEPT ![u] = dest_dir]

InitPipeline ==
    /\ reqLoc = [r \in Requests |-> INBOX_PLANNER]
    /\ loc = [u \in Units |-> ABSENT]
    /\ valid = [u \in Units |-> FALSE]
    /\ ids = [u \in Units |-> {}]
    /\ safety = [u \in Units |-> FALSE]
    /\ staged = [u \in Units |-> FALSE]
    /\ submits = [u \in Units |-> [f \in Files(u) |-> 0]]
    /\ p_pc = "loop" /\ p_todo = {} /\ p_cur = 0 /\ p_i = 0
    /\ r_pc = "loop" /\ r_todo = {} /\ r_cur = 0 /\ r_admitted = 0
    /\ r_deferred = 0
    /\ t_pc = "loop" /\ t_todo = {} /\ t_cur = 0 /\ t_i = 0 /\ t_mem = {}
    /\ t_finished = 0 /\ t_updated = 0 /\ t_polled = {} /\ t_seen = {}
    /\ x_pc = "loop" /\ x_todo = {} /\ x_cur = 0
    /\ f_pc = "loop" /\ f_todo = {} /\ f_cur = 0 /\ f_dir = 0 /\ f_files = {}
    /\ f_load = "none"
    /\ kills = 0

(* the Planner has no request in hand *)
PlanIdle ==
    /\ file_metadata = <<>> /\ pl_pc = "idle" /\ pl_i = 0
    /\ hpss_files = <<>> /\ tape_groups = <<>> /\ written = <<>>
    /\ work_dir = <<>>

(* the Transferrer is not submitting a transfer *)
DestIdle ==
    /\ hpss_base_path = <<>> /\ tacc_base_path = <<>> /\ d_hpss_path = <<>>
    /\ d_pc = "idle" /\ data_warehouse_path = <<>> /\ dst_file = <<>>

(* no stage is looked at on its own *)
StageIdle ==
    /\ s_stage = "none" /\ s_content = <<>> /\ s_loc = <<>> /\ s_todo = {}
    /\ s_pc = "idle" /\ s_cause = "none" /\ s_fetch = <<>> /\ s_failed = 0

(* struct TaccSyncFile as lib.rs declares it *)
TaccSyncFileDeclared ==
    {"file_name", "hpss_path", "size", "tape_num", "tape_offset"}

(* struct TaccSyncFile as globus_xfer.rs reads and assigns it: process_file *)
(* uses file.globus_task_id, an Option<Uuid>                                *)
TaccSyncFileUsed == TaccSyncFileDeclared \cup {"globus_task_id"}

(* the crate in which process_file finds the field it uses *)
RecordAsUsed == file_fields = TaccSyncFileUsed

SideIdle == PlanIdle /\ DestIdle /\ StageIdle /\ RecordAsUsed

(* the deployment whose transfer buffer holds the largest work unit *)
Init == InitPipeline /\ space_allowed = TRANSFER_QUOTA /\ SideIdle

(* any smaller TRANSFER_QUOTA as well: some unit may not fit at all *)
InitAnyQuota == InitPipeline /\ space_allowed \in 1..TRANSFER_QUOTA /\ SideIdle


(* ---------------------------------------------------------------------- *)
(* syncer.rs (Planner)                                                     *)
(* ---------------------------------------------------------------------- *)
(* the tape groups of request r still to be written after unit `last`;     *)
(* unit numbers follow the sorted tape labels                              *)
(* a plausible slip: the loop over the tape groups stops one group early *)
RemainingGroupsButLast(r, last) ==
    {u \in UnitsOf(r) : u > last /\ \E v \in UnitsOf(r) : v > u}

RemainingGroups(r, last) == {u \in UnitsOf(r) : u > last}
NextGroup(r, last) ==
    CHOOSE u \in RemainingGroups(r, last) :
        \A v \in RemainingGroups(r, last) : u <= v

(* main: the work loop is exhausted; sleep, then list the inbox again *)
PlannerList ==
    /\ p_pc = "loop" /\ p_todo = {}
    /\ p_todo' = {r \in Requests : reqLoc[r] = INBOX_PLANNER}
    /\ UNCHANGED <<fsVars, p_pc, p_cur, p_i, rVars, tVars, xVars, fVars, kills, sideVars>>

(* load_request_from_file, then process_sync_request up to the tape groups *)
PlannerLoad(r) ==
    /\ p_pc = "loop" /\ r \in p_todo
    /\ p_cur' = r /\ p_i' = 0
    /\ p_todo' = p_todo \ {r}
    /\ p_pc' = "groups"
    /\ UNCHANGED <<fsVars, rVars, tVars, xVars, fVars, kills, sideVars>>

(* generate_work_units: File::create of <work_id>.json in WORK_DIR *)
PlannerCreate ==
    /\ p_pc = "groups" /\ RemainingGroups(p_cur, p_i) # {}
    /\ LET u == NextGroup(p_cur, p_i) IN
        /\ loc' = [loc EXCEPT ![u] = HPSS_DIR]
        /\ valid' = [valid EXCEPT ![u] = FALSE]
        /\ ids' = [ids EXCEPT ![u] = {}]
        /\ p_i' = u
    /\ p_pc' = "write"
    /\ UNCHANGED <<reqLoc, safety, staged, submits, p_todo, p_cur,
                   rVars, tVars, xVars, fVars, kills, sideVars>>

(* generate_work_units: serde_json::to_writer_pretty through the open file *)
PlannerWrite ==
    /\ p_pc = "write"
    /\ valid' = [valid EXCEPT ![p_i] = TRUE]
    /\ p_pc' = "groups"
    /\ UNCHANGED <<reqLoc, loc, ids, safety, staged, submits, p_todo, p_cur,
                   p_i, rVars, tVars, xVars, fVars, kills, sideVars>>

(* main: move the request to the outbox once every unit is written *)
PlannerForward ==
    /\ p_pc = "groups" /\ RemainingGroups(p_cur, p_i) = {}
    /\ reqLoc' = [reqLoc EXCEPT ![p_cur] = INBOX_FINISHER]
    /\ p_pc' = "loop" /\ p_cur' = 0 /\ p_i' = 0
    /\ UNCHANGED <<loc, valid, ids, safety, staged, submits, p_todo,
                   rVars, tVars, xVars, fVars, kills, sideVars>>

Planner ==
    \/ PlannerList
    \/ \E r \in Requests : PlannerLoad(r)
    \/ PlannerCreate
    \/ PlannerWrite
    \/ PlannerForward

(* ---------------------------------------------------------------------- *)
(* retriever.rs                                                            *)
(* ---------------------------------------------------------------------- *)
RECURSIVE SumSizes(_)
SumSizes(S) ==
    IF S = {} THEN 0
    ELSE LET u == CHOOSE v \in S : TRUE IN Size(u) + SumSizes(S \ {u})

(* recursive sum of the regular files under TRANSFER_DIR *)
calculate_directory_size == SumSizes({u \in Units : staged[u]})

(* a plausible slip: the quota test never stops the cycle *)
BufferNeverFull(space_required, allowed) == FALSE

(* space_required > space_allowed *)
BufferFull(space_required, allowed) == space_required > allowed

Max(a, b) == IF a >= b THEN a ELSE b

(* a plausible slip: the unit that does not fit is skipped and the loop *)
(* goes on with the entries after it                                    *)
skip_and_continue(todo, u) == todo \ {u}

(* main: `break` leaves the loop over the listed files *)
break_cycle(todo, u) == {}

(* main: the work loop has ended; sleep, then list the inbox again *)
RetrieverList ==
    /\ r_pc = "loop" /\ r_todo = {}
    /\ r_todo' = find_json_files_in_directory(HPSS_DIR)
    /\ r_admitted' = 0 /\ r_deferred' = 0
    /\ UNCHANGED <<fsVars, r_pc, r_cur, space_allowed, pVars, tVars, xVars, fVars, kills, sideVars>>

(* one iteration of the work loop up to the end of process_work *)
RetrieverWork(u) ==
    /\ r_pc = "loop" /\ u \in r_todo
    /\ IF load_work_from_file(u, HPSS_DIR) # "Ok"
       THEN /\ move_to_outbox(u, Q_RETRIEVER)
            /\ r_todo' = r_todo \ {u}
            /\ UNCHANGED <<staged, r_pc, r_cur, r_admitted, r_deferred>>
       ELSE IF BufferFull(calculate_directory_size + Size(u), space_allowed)
       THEN /\ r_todo' = break_cycle(r_todo, u)
            /\ r_deferred' = u
            /\ UNCHANGED <<loc, staged, r_pc, r_cur, r_admitted>>
       ELSE /\ staged' = [staged EXCEPT ![u] = TRUE]
            /\ r_cur' = u /\ r_pc' = "forward"
            /\ r_admitted' = Max(r_admitted, Size(u))
            /\ r_todo' = r_todo \ {u}
            /\ UNCHANGED <<loc, r_deferred>>
    /\ UNCHANGED <<reqLoc, valid, ids, safety, submits, space_allowed,
                   pVars, tVars, xVars, fVars, kills, sideVars>>

(* process_work returned true: move the unit to the outbox *)
RetrieverForward ==
    /\ r_pc = "forward"
    /\ move_to_outbox(r_cur, GLOBUS_DIR)
    /\ r_pc' = "loop" /\ r_cur' = 0
    /\ UNCHANGED <<reqLoc, valid, ids, safety, staged, submits, r_todo,
                   r_admitted, r_deferred, space_allowed, pVars, tVars, xVars, fVars, kills, sideVars>>

Retriever ==
    \/ RetrieverList
    \/ \E u \in Units : RetrieverWork(u)
    \/ RetrieverForward


(* ---------------------------------------------------------------------- *)
(* globus_xfer.rs (Transferrer)                                            *)
(* ---------------------------------------------------------------------- *)
(* a plausible slip: INACTIVE (suspended) is taken for a failure *)
StatusActionInactiveFails(status) ==
    IF status = "ACTIVE" THEN "wait"
    ELSE IF status = "SUCCEEDED" THEN "finished"
    ELSE "quarantine"

(* a plausible slip: FAILED falls into the arm of the waiting states *)
StatusActionFailedWaits(status) ==
    IF status \in {"ACTIVE", "INACTIVE", "FAILED"} THEN "wait"
    ELSE IF status = "SUCCEEDED" THEN "finished"
    ELSE "quarantine"

(* process_file: what the match on globus.status does *)
StatusAction(status) ==
    IF status \in {"ACTIVE", "INACTIVE"} THEN "wait"
    ELSE IF status = "SUCCEEDED" THEN "finished"
    ELSE "quarantine"

(* a plausible slip: the sanity check on globus.code is left out *)
CodeAcceptedUnchecked(code) == TRUE

(* execute_globus_transfer: the sanity check on globus.code *)
CodeAccepted(code) == code = "Accepted"

(* a plausible slip: the comparison is off by one *)
AllFinishedOffByOne(finished_count, len) == finished_count + 1 >= len

(* process_work: finished_count >= work.files.len() *)
AllFinished(finished_count, len) == finished_count >= len

(* a plausible slip: the work unit is rewritten at the end of every cycle *)
NeedsRewriteAlways(update_count) == update_count >= 0

(* process_work: update_count > 0 *)
NeedsRewrite(update_count) == update_count > 0

TransferrerReset ==
    /\ t_cur' = 0 /\ t_i' = 0 /\ t_mem' = {}
    /\ t_finished' = 0 /\ t_updated' = 0 /\ t_polled' = {}

TransferrerList ==
    /\ t_pc = "loop" /\ t_todo = {}
    /\ t_todo' = find_json_files_in_directory(GLOBUS_DIR)
    /\ UNCHANGED <<fsVars, t_pc, t_cur, t_i, t_mem, t_finished, t_updated, t_polled,
                   t_seen, pVars, rVars, xVars, fVars, kills, sideVars>>

(* main: load_work_from_file; a unit that does not load is quarantined *)
TransferrerLoad(u) ==
    /\ t_pc = "loop" /\ u \in t_todo
    /\ t_todo' = t_todo \ {u}
    /\ IF load_work_from_file(u, GLOBUS_DIR) # "Ok"
       THEN /\ move_to_outbox(u, Q_GLOBUS)
            /\ UNCHANGED <<t_pc, t_cur, t_i, t_mem, t_finished, t_updated, t_polled,
                           t_seen>>
       ELSE /\ t_cur' = u /\ t_i' = 1 /\ t_mem' = ids[u]
            /\ t_finished' = 0 /\ t_updated' = 0 /\ t_polled' = {}
            /\ t_seen' = {}
            /\ t_pc' = "files"
            /\ UNCHANGED loc
    /\ UNCHANGED <<reqLoc, valid, ids, safety, staged, submits,
                   pVars, rVars, xVars, fVars, kills, sideVars>>

(* process_work returns Ok(done); main forwards the unit when done *)
TransferrerReturn(finished_count, polled) ==
    /\ IF AllFinished(finished_count, NFiles(t_cur))
       THEN move_to_outbox(t_cur, REAPER_DIR)
       ELSE UNCHANGED loc
    /\ t_pc' = "loop"
    /\ t_cur' = 0 /\ t_i' = 0 /\ t_mem' = {}
    /\ t_finished' = 0 /\ t_updated' = 0 /\ t_polled' = polled

(* process_work: after process_file returned Ok for file t_i *)
TransferrerAdvance(finished_count, update_count, mem, polled) ==
    IF t_i < NFiles(t_cur)
    THEN /\ t_i' = t_i + 1 /\ t_pc' = "files"
         /\ t_finished' = finished_count /\ t_updated' = update_count
         /\ t_mem' = mem /\ t_polled' = polled
         /\ UNCHANGED <<loc, t_cur>>
    ELSE IF NeedsRewrite(update_count)
    THEN /\ t_pc' = "rename"
         /\ t_finished' = finished_count /\ t_updated' = update_count
         /\ t_mem' = mem /\ t_polled' = polled
         /\ UNCHANGED <<loc, t_cur, t_i>>
    ELSE TransferrerReturn(finished_count, polled)

(* a plausible slip: the unit is rewritten before the error is returned *)
quarantined_json_rewritten(on_disk, in_memory) == in_memory

(* the Err arm of main moves json_file itself; the TaccSyncWork that       *)
(* process_work was stamping in memory is dropped                          *)
quarantined_json(on_disk, in_memory) == on_disk

(* process_work returned Err: main moves the unit to quarantine *)
TransferrerQuarantine ==
    /\ move_to_outbox(t_cur, Q_GLOBUS)
    /\ ids' = [ids EXCEPT ![t_cur] = quarantined_json(ids[t_cur], t_mem)]
    /\ t_pc' = "loop"
    /\ TransferrerReset

(* process_file on a file that has a globus_task_id: globus task show *)
TransferrerPoll(status) ==
    /\ t_pc = "files" /\ t_i \in t_mem
    /\ t_seen' = t_seen \cup {status}
    /\ IF StatusAction(status) = "quarantine"
       THEN TransferrerQuarantine
       ELSE IF StatusAction(status) = "finished"
       THEN /\ TransferrerAdvance(t_finished + 1, t_updated, t_mem,
                                  t_polled \cup {t_i})
            /\ UNCHANGED ids
       ELSE /\ TransferrerAdvance(t_finished, t_updated, t_mem, t_polled)
            /\ UNCHANGED ids
    /\ UNCHANGED <<reqLoc, valid, safety, staged, submits, t_todo,
                   pVars, rVars, xVars, fVars, kills, sideVars>>

(* process_file on a file without globus_task_id: globus transfer *)
TransferrerSubmit(code) ==
    /\ t_pc = "files" /\ t_i \notin t_mem
    /\ t_seen' = t_seen \cup {code}
    /\ CodeAccepted(code) => submits[t_cur][t_i] < MaxSubmits
    /\ IF CodeAccepted(code)
       THEN /\ submits' = [submits EXCEPT ![t_cur][t_i] = @ + 1]
            /\ TransferrerAdvance(t_finished, t_updated + 1,
                                  t_mem \cup {t_i}, t_polled)
            /\ UNCHANGED ids
       ELSE /\ TransferrerQuarantine
            /\ UNCHANGED submits
    /\ UNCHANGED <<reqLoc, valid, safety, staged, t_todo,
                   pVars, rVars, xVars, fVars, kills, sideVars>>

(* serde_json::to_writer_pretty(file, &work): the globus_task_id values the *)
(* derived Serialize of TaccSyncFile puts into the JSON                     *)
to_writer_pretty(mem) ==
    IF "globus_task_id" \in file_fields THEN mem ELSE {}

(* rewrite_work_unit: fs::rename(<work_id>.json, <work_id>.json.safety) *)
TransferrerRename ==
    /\ t_pc = "rename"
    /\ loc' = [loc EXCEPT ![t_cur] = ABSENT]
    /\ safety' = [safety EXCEPT ![t_cur] = TRUE]
    /\ t_pc' = "create"
    /\ UNCHANGED <<reqLoc, valid, ids, staged, submits, t_todo, t_cur, t_i,
                   t_mem, t_finished, t_updated, t_polled, t_seen,
                   pVars, rVars, xVars, fVars, kills, sideVars>>

(* rewrite_work_unit: File::create(<work_id>.json) *)
TransferrerCreate ==
    /\ t_pc = "create"
    /\ loc' = [loc EXCEPT ![t_cur] = GLOBUS_DIR]
    /\ valid' = [valid EXCEPT ![t_cur] = FALSE]
    /\ ids' = [ids EXCEPT ![t_cur] = {}]
    /\ t_pc' = "write"
    /\ UNCHANGED <<reqLoc, safety, staged, submits, t_todo, t_cur, t_i,
                   t_mem, t_finished, t_updated, t_polled, t_seen,
                   pVars, rVars, xVars, fVars, kills, sideVars>>

(* rewrite_work_unit: to_writer_pretty; the safety copy is not removed; *)
(* then process_work returns                                            *)
TransferrerWrite ==
    /\ t_pc = "write"
    /\ valid' = [valid EXCEPT ![t_cur] = TRUE]
    /\ ids' = [ids EXCEPT ![t_cur] = to_writer_pretty(t_mem)]
    /\ TransferrerReturn(t_finished, t_polled)
    /\ UNCHANGED <<reqLoc, safety, staged, submits, t_todo, t_seen,
                   pVars, rVars, xVars, fVars, kills, sideVars>>

Transferrer ==
    \/ TransferrerList
    \/ \E u \in Units : TransferrerLoad(u)
    \/ \E status \in Status : TransferrerPoll(status)
    \/ \E code \in Code : TransferrerSubmit(code)
    \/ TransferrerRename
    \/ TransferrerCreate
    \/ TransferrerWrite

(* the operator kills the process (SIGKILL); a new process starts idle *)
KillTransferrer ==
    /\ (t_pc # "loop" \/ t_todo # {}) /\ kills < MaxKills
    /\ kills' = kills + 1
    /\ t_pc' = "loop" /\ t_todo' = {}
    /\ TransferrerReset /\ t_seen' = {}
    /\ UNCHANGED <<fsVars, pVars, rVars, xVars, fVars, sideVars>>

(* ---------------------------------------------------------------------- *)
(* reaper.rs                                                               *)
(* ---------------------------------------------------------------------- *)
ReaperList ==
    /\ x_pc = "loop" /\ x_todo = {}
    /\ x_todo' = find_json_files_in_directory(REAPER_DIR)
    /\ UNCHANGED <<fsVars, x_pc, x_cur, pVars, rVars, tVars, fVars, kills, sideVars>>

(* a plausible slip: the staged directory is left in place *)
remove_dir_all_skipped(u) == UNCHANGED staged

(* fs::remove_dir_all(TRANSFER_DIR/<work_id>) *)
remove_dir_all(u) == staged' = [staged EXCEPT ![u] = FALSE]

(* a plausible slip: the failed removal is logged and the loop goes on *)
expect_logged == "loop"

(* Result::expect on the Err of fs::remove_dir_all: the process panics *)
expect == "aborted"

(* load the unit and remove its directory; .expect panics if it is absent *)
ReaperWork(u) ==
    /\ x_pc = "loop" /\ u \in x_todo
    /\ x_todo' = x_todo \ {u}
    /\ IF load_work_from_file(u, REAPER_DIR) # "Ok"
       THEN /\ move_to_outbox(u, Q_REAPER)
            /\ UNCHANGED <<staged, x_pc, x_cur>>
       ELSE IF staged[u]
       THEN /\ remove_dir_all(u)
            /\ x_cur' = u /\ x_pc' = "forward"
            /\ UNCHANGED loc
       ELSE /\ x_pc' = expect
            /\ UNCHANGED <<loc, staged, x_cur>>
    /\ UNCHANGED <<reqLoc, valid, ids, safety, submits,
                   pVars, rVars, tVars, fVars, kills, sideVars>>

ReaperForward ==
    /\ x_pc = "forward"
    /\ move_to_outbox(x_cur, WORK_FINISHED)
    /\ x_pc' = "loop" /\ x_cur' = 0
    /\ UNCHANGED <<reqLoc, valid, ids, safety, staged, submits, x_todo,
                   pVars, rVars, tVars, fVars, kills, sideVars>>

Reaper ==
    \/ ReaperList
    \/ \E u \in Units : ReaperWork(u)
    \/ ReaperForward

(* the operator kills the Reaper (SIGKILL); a new process starts idle *)
KillReaper ==
    /\ (x_pc = "forward" \/ x_todo # {}) /\ kills < MaxKills
    /\ kills' = kills + 1
    /\ x_pc' = "loop" /\ x_todo' = {} /\ x_cur' = 0
    /\ UNCHANGED <<fsVars, pVars, rVars, tVars, fVars, sideVars>>

(* the operator starts the Reaper again after it panicked *)
RestartReaper ==
    /\ x_pc = "aborted"
    /\ x_pc' = "loop" /\ x_todo' = {} /\ x_cur' = 0
    /\ UNCHANGED <<fsVars, pVars, rVars, tVars, fVars, kills, sideVars>>

(* ---------------------------------------------------------------------- *)
(* finisher.rs                                                             *)
(* ---------------------------------------------------------------------- *)
(* a plausible slip: the comparison never matches *)
SameRequestNever(work_request_id, request_id) == FALSE

(* work.request_id == request.request_id *)
SameRequest(work_request_id, request_id) == work_request_id = request_id

FinisherList ==
    /\ f_pc = "loop" /\ f_todo = {}
    /\ f_todo' = {r \in Requests : reqLoc[r] = INBOX_FINISHER}
    /\ UNCHANGED <<fsVars, f_pc, f_cur, f_dir, f_files, f_load,
                   pVars, rVars, tVars, xVars, kills, sideVars>>

(* main: load_request_from_file and enter process_sync_request *)
FinisherLoad(r) ==
    /\ f_pc = "loop" /\ r \in f_todo
    /\ f_todo' = f_todo \ {r}
    /\ f_cur' = r /\ f_dir' = 0 /\ f_files' = {} /\ f_load' = "none"
    /\ f_pc' = "scan"
    /\ UNCHANGED <<fsVars, pVars, rVars, tVars, xVars, kills, sideVars>>

(* process_sync_request: find_json_files_in_directory on the next check_dir *)
FinisherListDir ==
    /\ f_pc = "scan" /\ f_files = {} /\ f_dir < Len(check_dirs)
    /\ f_dir' = f_dir + 1
    /\ f_files' = find_json_files_in_directory(check_dirs[f_dir + 1])
    /\ UNCHANGED <<fsVars, f_pc, f_todo, f_cur, f_load,
                   pVars, rVars, tVars, xVars, kills, sideVars>>

(* process_sync_request: load one listed work file and compare request_id *)
FinisherLoadWork(u) ==
    /\ f_pc = "scan" /\ u \in f_files
    /\ f_load' = load_work_from_file(u, check_dirs[f_dir])
    /\ IF f_load' = "panic"
       THEN f_pc' = "aborted" /\ UNCHANGED <<f_cur, f_dir, f_files>>
       ELSE IF f_load' = "Err" \/ SameRequest(ReqOf(u), f_cur)
       THEN f_pc' = "loop" /\ f_files' = {} /\ UNCHANGED <<f_cur, f_dir>>
       ELSE f_files' = f_files \ {u} /\ UNCHANGED <<f_pc, f_cur, f_dir>>
    /\ UNCHANGED <<fsVars, f_todo, pVars, rVars, tVars, xVars, kills, sideVars>>

(* process_sync_request: every directory is exhausted; move_to_outbox *)
FinisherRetire ==
    /\ f_pc = "scan" /\ f_files = {} /\ f_dir = Len(check_dirs)
    /\ reqLoc' = [reqLoc EXCEPT ![f_cur] = FINISHED]
    /\ f_pc' = "loop"
    /\ UNCHANGED <<loc, valid, ids, safety, staged, submits, f_todo, f_cur,
                   f_dir, f_files, f_load, pVars, rVars, tVars, xVars, kills, sideVars>>

Finisher ==
    \/ FinisherList
    \/ \E r \in Requests : FinisherLoad(r)
    \/ FinisherListDir
    \/ \E u \in Units : FinisherLoadWork(u)
    \/ FinisherRetire

Next == Planner \/ Retriever \/ Transferrer \/ Reaper \/ Finisher

Spec == Init /\ [][Next]_vars

(* the same pipeline when the operator may kill and restart the Transferrer *)
NextRestart == Next \/ KillTransferrer

SpecRestart == Init /\ [][NextRestart]_vars


(* the same pipeline when the operator may kill the Reaper and start it *)
(* again after a kill or a panic                                        *)
NextReaperRestart == Next \/ KillReaper \/ RestartReaper

SpecReaperRestart == Init /\ [][NextReaperRestart]_vars

(* the pipeline under any TRANSFER_QUOTA *)
SpecAnyQuota == InitAnyQuota /\ [][Next]_vars

(* the finisher examining a request while the other stages are between   *)
(* steps: nothing else touches the directories during one scan           *)
FinisherScanning == f_pc = "scan"
NextQuiet ==
    \/ Finisher
    \/ (~FinisherScanning /\ (Planner \/ Retriever \/ Transferrer \/ Reaper))

SpecQuiet == Init /\ [][NextQuiet]_vars

(* the pipeline in the most favourable Globus environment: every transfer *)
(* is accepted and every status poll reports SUCCEEDED; each stage is a   *)
(* sequential process whose loop keeps being scheduled                    *)
TransferrerLive ==
    \/ TransferrerList
    \/ \E u \in Units : TransferrerLoad(u)
    \/ TransferrerPoll("SUCCEEDED")
    \/ TransferrerSubmit("Accepted")
    \/ TransferrerRename
    \/ TransferrerCreate
    \/ TransferrerWrite

NextLive == Planner \/ Retriever \/ TransferrerLive \/ Reaper \/ Finisher

SpecLive ==
    /\ Init /\ [][NextLive]_vars
    /\ WF_vars(Planner) /\ WF_vars(Retriever) /\ WF_vars(TransferrerLive)
    /\ WF_vars(Reaper) /\ WF_vars(Finisher)

(* the same favourable environment when the operator may kill the         *)
(* Transferrer; the restarted process is scheduled like the first         *)
NextRestartLive == NextLive \/ KillTransferrer

SpecRestartLive ==
    /\ Init /\ [][NextRestartLive]_vars
    /\ WF_vars(Planner) /\ WF_vars(Retriever) /\ WF_vars(TransferrerLive)
    /\ WF_vars(Reaper) /\ WF_vars(Finisher)

(* the pipeline built either way: the sources do not say whether the JSON *)
(* of a TaccSyncFile carries globus_task_id                               *)
InitAnyRecord ==
    /\ InitPipeline /\ space_allowed = TRANSFER_QUOTA
    /\ PlanIdle /\ DestIdle /\ StageIdle
    /\ file_fields \in {TaccSyncFileDeclared, TaccSyncFileUsed}

SpecAnyRecord == InitAnyRecord /\ [][Next]_vars


(* ---------------------------------------------------------------------- *)
(* syncer.rs: the plan of one request                                      *)
(* ---------------------------------------------------------------------- *)
(* strings are sequences of character codes; 0 stands for the digit "0",   *)
(* which sorts before every letter                                         *)
MaxLines == 3
SizeBits == 3
NUM_HSI_METADATA_FIELDS == 13

ZERO_LABEL == <<0>>
TapeFields == {<<1, 1, 1>>, <<1, 1, 2>>, <<2>>}
HpssPaths == {<<1>>, <<1, 2>>}
TapePositions == {<<>>, <<0, 1>>, <<1, 0>>}

(* field 2 of the FILE line: one byte, or the largest u64 *)
SizeField(path) == IF Len(path) = 1 THEN 1 ELSE 2 ^ SizeBits - 1

(* the lines hsi can print: command echoes and FILE records *)
FileLine(n, path, pos, tape) ==
    [tag |-> "FILE", nfields |-> n, hpss_path |-> path,
     size |-> SizeField(path), tape_pos |-> pos, tape |-> tape]
EchoLine ==
    [tag |-> "ls", nfields |-> 1, hpss_path |-> <<1>>,
     size |-> 0, tape_pos |-> <<>>, tape |-> <<>>]
MetadataLines ==
    {EchoLine}
    \cup {FileLine(NUM_HSI_METADATA_FIELDS, path, pos, tape) :
              path \in HpssPaths, pos \in TapePositions, tape \in TapeFields}
    \cup {FileLine(n, <<1>>, <<0, 1>>, <<1, 1, 1>>) :
              n \in {NUM_HSI_METADATA_FIELDS - 1, NUM_HSI_METADATA_FIELDS + 1}}

RECURSIVE SeqsUpTo(_, _)
SeqsUpTo(S, n) ==
    IF n = 0 THEN {<<>>}
    ELSE LET shorter == SeqsUpTo(S, n - 1) IN
         shorter \cup {Append(q, x) : q \in shorter, x \in S}

(* Ord::cmp on u64 and on String (byte-wise lexicographic) *)
NumCmp(a, b) == IF a < b THEN "Less" ELSE IF a > b THEN "Greater" ELSE "Equal"
StrLess(a, b) ==
    \E i \in 1..(Len(a) + 1) :
        /\ \A j \in 1..(i - 1) : j <= Len(b) /\ a[j] = b[j]
        /\ \/ i = Len(a) + 1 /\ Len(b) >= i
           \/ i <= Len(a) /\ i <= Len(b) /\ a[i] < b[i]
StrCmp(a, b) ==
    IF a = b THEN "Equal" ELSE IF StrLess(a, b) THEN "Less" ELSE "Greater"

(* Ordering::then_with *)
then_with(first, second) == IF first = "Equal" THEN second ELSE first

(* a plausible slip: the tape position is left out of the comparison *)
compare_without_position(a, b) ==
    then_with(StrCmp(a.tape, b.tape), StrCmp(a.hpss_path, b.hpss_path))

(* a plausible slip: the tape labels are compared the wrong way round *)
compare_tape_descending(a, b) ==
    then_with(StrCmp(b.tape, a.tape),
    then_with(NumCmp(a.tape_num, b.tape_num),
    then_with(NumCmp(a.tape_offset, b.tape_offset),
              StrCmp(a.hpss_path, b.hpss_path))))

(* the closure passed to sort_by: tape, tape_num, tape_offset, hpss_path *)
compare(a, b) ==
    then_with(StrCmp(a.tape, b.tape),
    then_with(NumCmp(a.tape_num, b.tape_num),
    then_with(NumCmp(a.tape_offset, b.tape_offset),
              StrCmp(a.hpss_path, b.hpss_path))))


(* Vec::sort_by: a stable sort by `compare` *)
RECURSIVE InsertSorted(_, _)
InsertSorted(x, sorted) ==
    IF sorted = <<>> THEN <<x>>
    ELSE IF compare(x, Head(sorted)) = "Less" THEN <<x>> \o sorted
    ELSE <<Head(sorted)>> \o InsertSorted(x, Tail(sorted))

(* a plausible slip: the files are grouped in the order hsi listed them *)
sort_by_skipped(files) == files

RECURSIVE sort_by(_)
sort_by(files) ==
    IF files = <<>> THEN <<>>
    ELSE InsertSorted(files[Len(files)],
                      sort_by(SubSeq(files, 1, Len(files) - 1)))

(* group_files_by_tape: the loop over the sorted files *)
RECURSIVE GroupRuns(_, _, _)
GroupRuns(files, grouped, current_group) ==
    IF files = <<>>
    THEN IF current_group # <<>> THEN Append(grouped, current_group)
         ELSE grouped
    ELSE IF current_group = <<>> \/ current_group[1].tape = Head(files).tape
    THEN GroupRuns(Tail(files), grouped, Append(current_group, Head(files)))
    ELSE GroupRuns(Tail(files), Append(grouped, current_group),
                   <<Head(files)>>)

group_files_by_tape(files) == GroupRuns(sort_by(files), <<>>, <<>>)

(* a plausible slip: a FILE line of any length is taken *)
BadFieldCountIgnored(nfields) == FALSE

(* parse_tape_metadata: fields.len() != NUM_HSI_METADATA_FIELDS *)
BadFieldCount(nfields) == nfields # NUM_HSI_METADATA_FIELDS

(* parse_tape_metadata: the HpssFile built from one FILE line *)
ParseLine(line) ==
    [hpss_path |-> line.hpss_path,
     size |-> line.size,
     tape |-> IF Len(line.tape) < 3 THEN ZERO_LABEL ELSE line.tape,
     tape_num |-> IF line.tape_pos = <<>> THEN 0 ELSE line.tape_pos[1],
     tape_offset |-> IF line.tape_pos = <<>> THEN 0 ELSE line.tape_pos[2]]

(* generate_work_units: size += file.size over the group *)
RECURSIVE SumFileSizes(_)
SumFileSizes(files) ==
    IF files = <<>> THEN 0 ELSE Head(files).size + SumFileSizes(Tail(files))

Overflows(tape_group) == SumFileSizes(tape_group) >= 2 ^ SizeBits
WrappingSize(tape_group) == SumFileSizes(tape_group) % (2 ^ SizeBits)

(* generate_work_units: the TaccSyncWork of one tape group *)
TaccSyncWorkOf(tape_group) ==
    [files |-> [i \in 1..Len(tape_group) |->
                   [hpss_path |-> tape_group[i].hpss_path,
                    size |-> tape_group[i].size,
                    tape_num |-> tape_group[i].tape_num,
                    tape_offset |-> tape_group[i].tape_offset]],
     size |-> WrappingSize(tape_group),
     tape |-> tape_group[1].tape]


pipeVars == <<fsVars, pVars, rVars, tVars, xVars, fVars, kills, file_fields>>

(* process_sync_request has the hsi metadata of the request's files *)
InitPlan ==
    /\ InitPipeline /\ space_allowed = TRANSFER_QUOTA
    /\ DestIdle /\ StageIdle /\ RecordAsUsed
    /\ file_metadata \in SeqsUpTo(MetadataLines, MaxLines)
    /\ pl_pc = "parse" /\ pl_i = 0
    /\ hpss_files = <<>> /\ tape_groups = <<>> /\ written = <<>>
    /\ work_dir = <<>>

(* parse_tape_metadata: one iteration of the loop over the lines *)
PlanParseLine ==
    /\ pl_pc = "parse" /\ pl_i < Len(file_metadata)
    /\ LET line == file_metadata[pl_i + 1] IN
       IF line.tag # "FILE"
       THEN UNCHANGED <<pl_pc, hpss_files>>
       ELSE IF BadFieldCount(line.nfields)
       THEN pl_pc' = "aborted" /\ UNCHANGED hpss_files
       ELSE /\ hpss_files' = Append(hpss_files, ParseLine(line))
            /\ UNCHANGED pl_pc
    /\ pl_i' = pl_i + 1
    /\ UNCHANGED <<file_metadata, tape_groups, written, work_dir, pipeVars,
                   destVars, stageVars>>

(* group_files_by_tape: sorts hpss_files in place and returns the groups *)
PlanGroup ==
    /\ pl_pc = "parse" /\ pl_i = Len(file_metadata)
    /\ hpss_files' = sort_by(hpss_files)
    /\ tape_groups' = group_files_by_tape(hpss_files)
    /\ pl_pc' = "emit"
    /\ UNCHANGED <<file_metadata, pl_i, written, work_dir, pipeVars, destVars,
                   stageVars>>

(* generate_work_units: one iteration of the loop over the tape groups;   *)
(* an overflowing sum panics in a build with overflow checks and wraps in *)
(* a build without them                                                   *)
PlanEmit(overflow_checks) ==
    /\ pl_pc = "emit" /\ Len(written) < Len(tape_groups)
    /\ LET tape_group == tape_groups[Len(written) + 1] IN
       IF Overflows(tape_group) /\ overflow_checks
       THEN pl_pc' = "aborted" /\ UNCHANGED <<written, work_dir>>
       ELSE /\ written' = Append(written, TaccSyncWorkOf(tape_group))
            /\ work_dir' = Append(work_dir, TaccSyncWorkOf(tape_group))
            /\ UNCHANGED pl_pc
    /\ UNCHANGED <<file_metadata, pl_i, hpss_files, tape_groups, pipeVars,
                   destVars, stageVars>>

(* main: process_sync_request returned; the request is moved to the outbox *)
PlanForward ==
    /\ pl_pc = "emit" /\ Len(written) = Len(tape_groups)
    /\ pl_pc' = "forwarded"
    /\ UNCHANGED <<file_metadata, pl_i, hpss_files, tape_groups, written,
                   work_dir, pipeVars, destVars, stageVars>>

(* the Planner process is killed or has panicked before the request was *)
(* moved to the outbox, and is started again: the next cycle finds the  *)
(* request in the inbox and runs process_sync_request on it from the    *)
(* start; what was written to WORK_DIR stays                            *)
PlanRestart ==
    /\ pl_pc \in {"parse", "emit", "aborted"} /\ kills < MaxKills
    /\ kills' = kills + 1
    /\ pl_pc' = "parse" /\ pl_i' = 0
    /\ hpss_files' = <<>> /\ tape_groups' = <<>> /\ written' = <<>>
    /\ UNCHANGED <<file_metadata, work_dir, fsVars, pVars, rVars, tVars,
                   xVars, fVars, file_fields, destVars, stageVars>>

NextPlan ==
    \/ PlanParseLine
    \/ PlanGroup
    \/ \E overflow_checks \in BOOLEAN : PlanEmit(overflow_checks)
    \/ PlanForward

SpecPlan == InitPlan /\ [][NextPlan]_vars

(* the plan of a request when the Planner may be killed or panic and be *)
(* started again                                                        *)
NextPlanRestart == NextPlan \/ PlanRestart

SpecPlanRestart == InitPlan /\ [][NextPlanRestart]_vars

(* ---------------------------------------------------------------------- *)
(* globus_xfer.rs: the destination path of one transfer                    *)
(* ---------------------------------------------------------------------- *)
MaxPathLen == 4

(* path strings are sequences of ASCII codes: "/" and two letters *)
SLASH == 47
PathChars == {SLASH, 97, 98}

(* absolute paths of at most MaxPathLen characters *)
AbsolutePaths ==
    {path \in SeqsUpTo(PathChars, MaxPathLen) :
        path # <<>> /\ path[1] = SLASH}

(* HPSS_BASE_PATH: /a, /a/ and /a/b;  TACC_BASE_PATH: /b and /b/ *)
BasePaths == {<<SLASH, 97>>, <<SLASH, 97, SLASH>>, <<SLASH, 97, 98>>}
TaccPaths == {<<SLASH, 98>>, <<SLASH, 98, SLASH>>}

(* str::starts_with *)
starts_with(str, prefix) ==
    Len(prefix) <= Len(str) /\ SubSeq(str, 1, Len(prefix)) = prefix

(* &str[start..] with a 0-based byte index: panics past the end *)
SliceFrom(str, start) ==
    IF start > Len(str) THEN "panic" ELSE SubSeq(str, start + 1, Len(str))

(* PathBuf::join: an absolute argument replaces the base *)
join(base, path) ==
    IF path # <<>> /\ path[1] = SLASH THEN path
    ELSE IF base = <<>> \/ base[Len(base)] = SLASH THEN base \o path
    ELSE base \o <<SLASH>> \o path

InitDest ==
    /\ InitPipeline /\ space_allowed = TRANSFER_QUOTA
    /\ PlanIdle /\ StageIdle /\ RecordAsUsed
    /\ hpss_base_path \in BasePaths /\ tacc_base_path \in TaccPaths
    /\ d_hpss_path \in AbsolutePaths
    /\ d_pc = "check" /\ data_warehouse_path = <<>> /\ dst_file = <<>>

(* execute_globus_transfer: the sanity check on the prefix *)
DestCheck ==
    /\ d_pc = "check"
    /\ d_pc' = IF starts_with(d_hpss_path, hpss_base_path)
               THEN "slice" ELSE "Err"
    /\ UNCHANGED <<hpss_base_path, tacc_base_path, d_hpss_path,
                   data_warehouse_path, dst_file, pipeVars, planVars,
                   stageVars>>

(* execute_globus_transfer: &file.hpss_path[start_index + 1..] *)
DestSlice ==
    /\ d_pc = "slice"
    /\ LET start_index == Len(hpss_base_path)
           slice == SliceFrom(d_hpss_path, start_index + 1) IN
       IF slice = "panic"
       THEN d_pc' = "panic" /\ UNCHANGED data_warehouse_path
       ELSE d_pc' = "join" /\ data_warehouse_path' = slice
    /\ UNCHANGED <<hpss_base_path, tacc_base_path, d_hpss_path, dst_file,
                   pipeVars, planVars, stageVars>>

(* execute_globus_transfer: tacc_dir.join(..), then globus transfer runs *)
DestJoin ==
    /\ d_pc = "join"
    /\ dst_file' = join(tacc_base_path, data_warehouse_path)
    /\ d_pc' = "transfer"
    /\ UNCHANGED <<hpss_base_path, tacc_base_path, d_hpss_path,
                   data_warehouse_path, pipeVars, planVars, stageVars>>

NextDest == DestCheck \/ DestSlice \/ DestJoin

SpecDest == InitDest /\ [][NextDest]_vars

(* ---------------------------------------------------------------------- *)
(* the main loop of one stage over its own inbox                           *)
(* ---------------------------------------------------------------------- *)
NumEntries == 2
Entries == 1..NumEntries

Stages == {"syncer", "retriever", "globus_xfer", "reaper", "finisher"}

(* what an inbox file can hold: the expected JSON, other text, bytes that  *)
(* are not UTF-8, or nothing the process is allowed to open                *)
Contents == {"valid", "malformed", "not_utf8", "unreadable"}

(* load_request_from_file and load_work_from_file have the same body:      *)
(* File::open(..).expect, read_to_string(..).expect, serde_json::from_str? *)
load_request_from_file(content) ==
    IF content = "unreadable" THEN "panic"
    ELSE IF content = "not_utf8" THEN "panic"
    ELSE IF content = "malformed" THEN "Err"
    ELSE "Ok"

(* how the work on a loaded entry can end in each stage's main            *)
ProcessOutcomes(stage) ==
    IF stage = "syncer" THEN {"forward", "panic"}
    ELSE IF stage = "retriever" THEN {"break", "forward", "panic"}
    ELSE IF stage = "globus_xfer" THEN {"forward", "keep", "quarantine", "panic"}
    ELSE IF stage = "reaper" THEN {"forward", "panic"}
    ELSE {"forward", "keep", "panic"}

(* how `hsi -P in <batch>` can end once it has run *)
HsiOutcomes == {"ok", "failed"}

(* a plausible slip: a failed rename is logged and the loop goes on *)
rename_error_logged(pc) == pc

(* move_to_outbox: Err(e) => panic!("FULL STOP ...") *)
rename_error(pc) == "aborted"

InitStage ==
    /\ InitPipeline /\ space_allowed = TRANSFER_QUOTA
    /\ PlanIdle /\ DestIdle /\ RecordAsUsed
    /\ s_stage \in Stages
    /\ s_content \in [Entries -> Contents]
    /\ s_loc = [e \in Entries |-> "inbox"]
    /\ s_todo = {} /\ s_pc = "loop" /\ s_cause = "none"
    /\ s_fetch = [e \in Entries |-> "none"]
    /\ s_failed = 0

(* main: find_json_files_in_directory(inbox_dir) at the top of a cycle *)
StageList ==
    /\ s_pc = "loop" /\ s_todo = {}
    /\ s_todo' = {e \in Entries : s_loc[e] = "inbox"}
    /\ UNCHANGED <<s_stage, s_content, s_loc, s_pc, s_cause, s_fetch,
                   s_failed, pipeVars, planVars, destVars>>

(* move_to_outbox(json_file, dest_dir) as called from main *)
StageMove(e, dest_dir, rename_ok) ==
    IF rename_ok
    THEN /\ s_loc' = [s_loc EXCEPT ![e] = dest_dir]
         /\ s_todo' = s_todo \ {e}
         /\ UNCHANGED <<s_pc, s_cause, s_failed>>
    ELSE /\ s_pc' = rename_error(s_pc)
         /\ s_cause' = "rename" /\ s_failed' = e
         /\ UNCHANGED <<s_loc, s_todo>>

StagePanic(cause) ==
    /\ s_pc' = "aborted" /\ s_cause' = cause
    /\ UNCHANGED <<s_loc, s_todo, s_failed>>

(* main: one iteration of the loop over the listed files *)
StageVisit(e, outcome, hsi, rename_ok) ==
    /\ s_pc = "loop" /\ e \in s_todo
    /\ LET loaded == load_request_from_file(s_content[e]) IN
       IF loaded = "panic" THEN StagePanic("load") /\ UNCHANGED s_fetch
       ELSE IF loaded = "Err"
       THEN StageMove(e, "quarantine", rename_ok) /\ UNCHANGED s_fetch
       ELSE IF outcome = "panic"
       THEN StagePanic("process") /\ UNCHANGED s_fetch
       ELSE IF outcome = "break"
       THEN /\ s_todo' = {}
            /\ UNCHANGED <<s_loc, s_pc, s_cause, s_failed, s_fetch>>
       ELSE IF outcome = "keep"
       THEN /\ s_todo' = s_todo \ {e}
            /\ UNCHANGED <<s_loc, s_pc, s_cause, s_failed, s_fetch>>
       ELSE IF outcome = "quarantine"
       THEN StageMove(e, "quarantine", rename_ok) /\ UNCHANGED s_fetch
       ELSE /\ s_fetch' = IF s_stage = "retriever"
                          THEN [s_fetch EXCEPT ![e] = hsi] ELSE s_fetch
            /\ StageMove(e, "outbox", rename_ok)
    /\ UNCHANGED <<s_stage, s_content, pipeVars, planVars, destVars>>

NextStage ==
    \/ StageList
    \/ \E e \in Entries : \E outcome \in ProcessOutcomes(s_stage) :
       \E hsi \in HsiOutcomes : \E rename_ok \in BOOLEAN :
           StageVisit(e, outcome, hsi, rename_ok)

SpecStage == InitStage /\ [][NextStage]_vars

(* ---------------------------------------------------------------------- *)
(* Properties                                                              *)
(* ---------------------------------------------------------------------- *)
ScannedDirs == {check_dirs[i] : i \in 1..Len(check_dirs)}

(* the unit's rewrite by the Transferrer is under way: only the safety    *)
(* copy exists                                                            *)
MidRewrite(u) == loc[u] = ABSENT /\ safety[u]

(* the unit has been written and has not yet left the Reaper inbox *)
InFlight(u) == loc[u] \in ScannedDirs \/ MidRewrite(u)

(* the step in which the finisher moves request r to its finished outbox *)
Retires(r) == reqLoc[r] # FINISHED /\ reqLoc'[r] = FINISHED

(* C1: under every interleaving of the Finisher's scan with the steps of  *)
(* the Retriever, the Transferrer (its rename / create / write rewrite    *)
(* included) and the Reaper, the Finisher never forwards a request to the *)
(* finished outbox while a work unit of that request has not yet left the *)
(* Reaper inbox.                                                          *)
C1_NoRetireWhileInFlight ==
    [][\A r \in Requests :
        Retires(r) => \A u \in UnitsOf(r) : ~InFlight(u)]_vars

(* a request is in the finished outbox while the rewrite of one of its    *)
(* units is under way in the Transferrer inbox                            *)
C1_Witness ==
    \E r \in Requests : \E u \in UnitsOf(r) :
        reqLoc[r] = FINISHED /\ MidRewrite(u)

(* C2: at the moment the Finisher moves a request to the finished outbox, *)
(* no work-unit JSON file carrying its request_id is present in HPSS_DIR, *)
(* GLOBUS_DIR or REAPER_DIR.                                              *)
C2_RetirementSoundness ==
    [][\A r \in Requests :
        Retires(r) =>
            \A u \in UnitsOf(r) : ~(loc[u] \in ScannedDirs /\ valid[u])]_vars

(* a request is in the finished outbox and a rewritten unit of it is in   *)
(* the Transferrer inbox                                                   *)
C2_Witness ==
    \E r \in Requests : \E u \in UnitsOf(r) :
        /\ reqLoc[r] = FINISHED
        /\ loc[u] = GLOBUS_DIR /\ valid[u] /\ ids[u] = Files(u)

(* C3: over the whole life of a work unit, kills and restarts of the      *)
(* Transferrer included, no WorkFile is submitted to Globus twice, and a  *)
(* unit that the Transferrer forwarded had every file submitted once.     *)
C3_RestartSafety ==
    \A u \in Units :
        /\ \A f \in Files(u) : submits[u][f] <= 1
        /\ loc[u] \in {REAPER_DIR, WORK_FINISHED} =>
               \A f \in Files(u) : submits[u][f] = 1

(* a WorkFile was submitted again after a kill *)
C3_Witness ==
    kills > 0 /\ \E u \in Units : \E f \in Files(u) : submits[u][f] = 2

(* the directories that hold <work_id>.json, and those that hold any copy *)
JsonDirs(u) == IF loc[u] = ABSENT THEN {} ELSE {loc[u]}
CopyDirs(u) == JsonDirs(u) \cup (IF safety[u] THEN {GLOBUS_DIR} ELSE {})
Written(u) == loc[u] # ABSENT \/ safety[u]

(* C4: in every reachable state each request JSON and each work-unit JSON *)
(* exists in exactly one stage directory, never in none and never in two, *)
(* during and after the Transferrer's rewrite as well.                    *)
C4_ExactlyOneDirectory ==
    /\ \A r \in Requests :
           reqLoc[r] \in {INBOX_PLANNER, INBOX_FINISHER, FINISHED}
    /\ \A u \in Units :
           Written(u) =>
               Cardinality(JsonDirs(u)) = 1 /\ Cardinality(CopyDirs(u)) = 1

(* the rewrite has renamed <work_id>.json and not yet created it again *)
C4_Witness == \E u \in Units : MidRewrite(u) /\ t_pc = "create" /\ t_cur = u


(* the step in which the Transferrer moves unit u to the Reaper inbox *)
Forwarded(u) == loc[u] = GLOBUS_DIR /\ loc'[u] = REAPER_DIR

(* every file of u had a globus_task_id in the JSON and was polled        *)
(* SUCCEEDED in the cycle that ends with this step                        *)
AllPolledSucceeded(u) ==
    \A f \in Files(u) : f \in ids[u] /\ f \in t_polled'

(* the step in which process_work returns Ok for the unit being processed *)
ProcessWorkOk ==
    /\ t_pc \in {"files", "write"} /\ t_pc' = "loop"
    /\ kills' = kills
    /\ loc'[t_cur] # Q_GLOBUS

(* C5: the Transferrer forwards a work unit to the Reaper inbox only in a *)
(* cycle in which every WorkFile had a globus_task_id and its status poll *)
(* returned SUCCEEDED; in every other non-error outcome the unit stays in *)
(* the Transferrer inbox.                                                 *)
C5_ForwardOnlyWhenAllSucceeded ==
    [][/\ \A u \in Units :
              Forwarded(u) => (t_cur = u /\ AllPolledSucceeded(u))
       /\ (ProcessWorkOk /\ ~AllPolledSucceeded(t_cur)) =>
              loc'[t_cur] = GLOBUS_DIR]_vars

C5_Witness ==
    \E u \in Units :
        /\ NFiles(u) > 1 /\ loc[u] = REAPER_DIR
        /\ ids[u] = Files(u) /\ t_polled = Files(u)

(* the Retriever's work loop has ended and the next has not begun *)
RetrieverCycleEnded == r_pc = "loop" /\ r_todo = {}

(* C6: after every Retriever cycle the bytes staged under TRANSFER_DIR    *)
(* are at most TRANSFER_QUOTA plus the size of one work unit admitted in  *)
(* that cycle, whatever the Reaper did meanwhile.                         *)
C6_Backpressure ==
    RetrieverCycleEnded =>
        calculate_directory_size <= space_allowed + r_admitted

C6_Witness ==
    /\ RetrieverCycleEnded /\ r_admitted > 0
    /\ calculate_directory_size = space_allowed
    /\ \E u \in Units : loc[u] = HPSS_DIR /\ valid[u]

(* the Retriever has staged u and not yet forwarded its JSON; the Reaper  *)
(* has removed u's directory and not yet forwarded its JSON               *)
BeingStaged(u) == r_pc = "forward" /\ r_cur = u
BeingReaped(u) == x_pc = "forward" /\ x_cur = u

(* u is in the Retriever-to-Reaper segment: staged by the Retriever and   *)
(* not yet reaped                                                         *)
InSegment(u) ==
    \/ BeingStaged(u)
    \/ loc[u] = GLOBUS_DIR \/ MidRewrite(u)
    \/ (loc[u] = REAPER_DIR /\ ~BeingReaped(u))

(* C7 as stated: TRANSFER_DIR/<work_id>/ exists if and only if the unit   *)
(* is in the Retriever-to-Reaper segment; no staged directory exists for  *)
(* a unit that is finished, quarantined or not yet admitted.              *)
C7_StagedIffInSegment == \A u \in Units : staged[u] <=> InSegment(u)

(* C7 amended: TRANSFER_DIR/<work_id>/ exists if and only if the unit is  *)
(* in the Retriever-to-Reaper segment or its JSON is in the Transferrer's *)
(* quarantine: a unit the Transferrer quarantines keeps its directory.    *)
C7_StagedIffInSegmentOrQuarantined ==
    \A u \in Units : staged[u] <=> (InSegment(u) \/ loc[u] = Q_GLOBUS)

C7_Witness == \E u \in Units : loc[u] = Q_GLOBUS /\ staged[u]

(* no stage process has died *)
StagesRunning == f_pc # "aborted" /\ x_pc # "aborted"

(* every request is in the finished outbox, every work unit is in the     *)
(* work-finished directory and TRANSFER_DIR holds no staged directory     *)
AllDone ==
    /\ \A r \in Requests : reqLoc[r] = FINISHED
    /\ \A u \in Units : loc[u] = WORK_FINISHED /\ ~staged[u]

(* C8: if every stage keeps running its cycles, every work unit fits the  *)
(* quota and every Globus task reports SUCCEEDED, then eventually every   *)
(* request is in the finished outbox, every work unit is in the           *)
(* work-finished directory and no staged directory is left.               *)
C8_Liveness == ([]StagesRunning) => <>[]AllDone

(* C9: when the Finisher fails to load a work file it listed, also when   *)
(* another stage renamed the file away after the listing, it does not     *)
(* retire the request, leaves it in its inbox and keeps running.          *)
C9_LoadFailureDefers ==
    f_load \in {"Err", "panic"} =>
        f_pc # "aborted" /\ reqLoc[f_cur] = INBOX_FINISHER

(* the file was forwarded by its stage after the Finisher listed it, and  *)
(* the Finisher's load panicked                                           *)
C9_Witness ==
    /\ f_load = "panic" /\ f_pc = "aborted"
    /\ \E u \in f_files : valid[u] /\ loc[u] \in ScannedDirs \ {check_dirs[f_dir]}

(* a loadable work unit of request r lies in a scanned directory; some    *)
(* .json entry of a scanned directory does not load                       *)
LoadableMatch(r) ==
    \E u \in Units : loc[u] \in ScannedDirs /\ valid[u] /\ ReqOf(u) = r
Unloadable == \E u \in Units : loc[u] \in ScannedDirs /\ ~valid[u]

(* the step in which process_sync_request returns *)
Decides == f_pc = "scan" /\ f_pc' = "loop"

(* C10 as stated: in a Finisher cycle a request is forwarded to the       *)
(* finished outbox if and only if no loadable WorkUnit JSON in HPSS_DIR,  *)
(* GLOBUS_DIR or REAPER_DIR carries its request_id.                       *)
C10_RetireIffNoLoadableMatch ==
    [][Decides => (Retires(f_cur) <=> ~LoadableMatch(f_cur))]_vars

(* C10 amended: a request is forwarded if and only if every .json entry   *)
(* of HPSS_DIR, GLOBUS_DIR and REAPER_DIR loads and none of them carries  *)
(* its request_id; an entry that does not load defers the request.        *)
C10_RetireIffAllLoadAndNoMatch ==
    [][Decides =>
        (Retires(f_cur) <=> (~Unloadable /\ ~LoadableMatch(f_cur)))]_vars

C10_Witness ==
    /\ f_pc = "loop" /\ f_load = "Err" /\ f_cur \in Requests
    /\ reqLoc[f_cur] = INBOX_FINISHER
    /\ Unloadable /\ ~LoadableMatch(f_cur)

(* C11: every work-unit file visible as a .json entry of WORK_DIR (the    *)
(* Retriever inbox) is completely written, so no reader sees an empty or  *)
(* partial unit and no valid unit is quarantined for being read mid-write *)
C11_VisibleUnitsComplete ==
    \A u \in Units :
        /\ loc[u] = HPSS_DIR => valid[u]
        /\ loc[u] # Q_RETRIEVER

(* the Planner finished writing a unit that the Retriever had already     *)
(* moved to its quarantine                                                *)
C11_Witness == \E u \in Units : loc[u] = Q_RETRIEVER /\ valid[u]

(* the Planner has written some or all units of the request *)
Emitting == pl_pc \in {"emit", "forwarded"}
PlannedWithTape(tape) ==
    {n \in 1..Len(hpss_files) : hpss_files[n].tape = tape}

(* C12: two planned files are in the same work unit if and only if they   *)
(* have the same tape label: the files of a unit all carry the unit's     *)
(* tape, no two units of the request carry the same tape, and a unit      *)
(* holds every planned file of its tape.                                  *)
C12_TapePartition ==
    Emitting =>
        /\ \A i \in 1..Len(written) :
            /\ Len(written[i].files) = Len(tape_groups[i])
            /\ \A k \in 1..Len(tape_groups[i]) :
                /\ tape_groups[i][k].tape = written[i].tape
                /\ tape_groups[i][k].hpss_path = written[i].files[k].hpss_path
            /\ Len(written[i].files) =
                   Cardinality(PlannedWithTape(written[i].tape))
        /\ \A i, j \in 1..Len(written) :
               i # j => written[i].tape # written[j].tape
        /\ pl_pc = "forwarded" =>
               \A n \in 1..Len(hpss_files) :
                   \E i \in 1..Len(written) : written[i].tape = hpss_files[n].tape

(* hsi listed a file of another tape between two files of one tape *)
C12_Witness ==
    /\ pl_pc = "forwarded" /\ Len(file_metadata) = 3 /\ Len(hpss_files) = 3
    /\ file_metadata[1].tape = file_metadata[3].tape
    /\ file_metadata[1].tape # file_metadata[2].tape
    /\ Len(file_metadata[2].tape) >= 3
    /\ Len(written) = 2

(* the tape-seek key of a WorkFile: (tape_num, tape_offset, hpss_path) *)
SeekKeyCmp(a, b) ==
    then_with(NumCmp(a.tape_num, b.tape_num),
    then_with(NumCmp(a.tape_offset, b.tape_offset),
              StrCmp(a.hpss_path, b.hpss_path)))

(* C13: the file list of every work unit the Planner writes is            *)
(* non-decreasing in (tape_num, tape_offset, hpss_path), whatever order   *)
(* the metadata lines arrived in.                                         *)
C13_TapeSeekOrder ==
    \A i \in 1..Len(written) :
        \A k \in 1..(Len(written[i].files) - 1) :
            SeekKeyCmp(written[i].files[k], written[i].files[k + 1])
                # "Greater"

(* the lines of one tape arrived in descending tape position *)
C13_Witness ==
    /\ pl_pc = "forwarded" /\ Len(written) = 1 /\ Len(file_metadata) = 3
    /\ Len(written[1].files) = 3
    /\ file_metadata[1].tape_pos = <<1, 0>>
    /\ file_metadata[2].tape_pos = <<0, 1>>
    /\ file_metadata[3].tape_pos = <<>>
    /\ written[1].files[1].tape_offset = 0 /\ written[1].files[3].tape_num = 1

(* C14: the work units of a request are written to WORK_DIR in strictly   *)
(* ascending order of their tape label.                                   *)
C14_AscendingTapeOrder ==
    \A i, j \in 1..Len(written) :
        i < j => StrLess(written[i].tape, written[j].tape)

(* three tapes, listed by hsi in descending order of label *)
C14_Witness ==
    /\ pl_pc = "forwarded" /\ Len(written) = 3
    /\ StrLess(file_metadata[2].tape, file_metadata[1].tape)
    /\ Len(file_metadata[3].tape) < 3
    /\ written[1].tape = ZERO_LABEL

(* C15: the size of every work unit the Planner writes equals the sum of  *)
(* the size fields of its files.                                          *)
C15_SizeIsSum ==
    \A i \in 1..Len(written) :
        written[i].size = SumFileSizes(written[i].files)

(* a unit was written whose size field wrapped around *)
C15_Witness ==
    \E i \in 1..Len(written) :
        /\ Len(written[i].files) = 2
        /\ written[i].size < written[i].files[1].size

(* a FILE line among the first k lines has a field count other than 13 *)
HasBadLine(k) ==
    \E n \in 1..k :
        /\ file_metadata[n].tag = "FILE"
        /\ file_metadata[n].nfields # NUM_HSI_METADATA_FIELDS
FileLinesIn(k) == {n \in 1..k : file_metadata[n].tag = "FILE"}

(* C20 as stated: a FILE line without exactly 13 fields is skipped; the   *)
(* Planner does not abort, plans the remaining files and forwards the     *)
(* request.                                                               *)
C20_BadLineSkipped == HasBadLine(pl_i) => pl_pc # "aborted"

(* C20 amended: on a FILE line without exactly 13 fields the Planner      *)
(* aborts at once: no later line is parsed, no work unit of the request   *)
(* is written and the request is not forwarded; only lines that do not    *)
(* begin with FILE are skipped.                                           *)
C20_BadLineAborts ==
    /\ HasBadLine(pl_i) =>
           /\ pl_pc = "aborted" /\ ~HasBadLine(pl_i - 1)
           /\ tape_groups = <<>> /\ written = <<>>
    /\ ~HasBadLine(pl_i) =>
           Len(hpss_files) = Cardinality(FileLinesIn(pl_i))

C20_Witness ==
    /\ pl_pc = "aborted" /\ pl_i = 2 /\ HasBadLine(2)
    /\ Len(hpss_files) = 1 /\ Len(file_metadata) = 3
    /\ file_metadata[3].tag = "FILE"

(* hpss_path with its first n characters removed; empty if it has no more *)
Drop(str, n) == SubSeq(str, n + 1, Len(str))

(* C16: for every hpss_path that starts with HPSS_BASE_PATH, the path     *)
(* equal to the base included, the Transferrer computes a destination and *)
(* it is TACC_BASE_PATH joined with hpss_path less its first              *)
(* len(HPSS_BASE_PATH)+1 characters.                                      *)
C16_DestinationPath ==
    starts_with(d_hpss_path, hpss_base_path) =>
        /\ d_pc # "panic"
        /\ d_pc = "transfer" =>
               dst_file = join(tacc_base_path,
                               Drop(d_hpss_path, Len(hpss_base_path) + 1))

(* hpss_path equals HPSS_BASE_PATH and the slice panicked *)
C16_Witness == d_pc = "panic" /\ d_hpss_path = hpss_base_path

(* C17: in every stage an inbox entry that cannot be parsed or loaded is  *)
(* moved to the stage's quarantine and the stage goes on; a parse or load *)
(* failure never aborts the process.                                      *)
C17_LoadFailureNeverAborts ==
    /\ s_pc = "aborted" => s_cause # "load"
    /\ \A e \in Entries : s_loc[e] = "outbox" => s_content[e] = "valid"

(* the process died on an entry that is not UTF-8 while a loadable entry  *)
(* of the same cycle was still waiting                                    *)
C17_Witness ==
    /\ s_pc = "aborted" /\ s_cause = "load"
    /\ \E e \in s_todo : s_content[e] = "not_utf8"
    /\ \E e \in s_todo : s_content[e] = "valid" /\ s_loc[e] = "inbox"

(* C18: when the tape fetch of a work unit fails, the Retriever moves the *)
(* unit's JSON to its quarantine and not to the Transferrer inbox; only a *)
(* unit whose fetch succeeded reaches the Transferrer inbox.              *)
C18_FetchFailureQuarantines ==
    \A e \in Entries :
        (s_stage = "retriever" /\ s_loc[e] = "outbox") => s_fetch[e] = "ok"

(* a unit whose fetch failed is in the Transferrer inbox *)
C18_Witness ==
    /\ s_stage = "retriever"
    /\ \E e \in Entries : s_fetch[e] = "failed" /\ s_loc[e] = "outbox"

C21_UnitsBeforeRequest ==
    \A r \in Requests :
        reqLoc[r] \in {INBOX_FINISHER, FINISHED} =>
            \A u \in UnitsOf(r) :
                /\ Written(u)
                /\ ~(p_pc = "write" /\ p_i = u)
                /\ loc[u] = HPSS_DIR => valid[u]

(* the Finisher examines a request whose units are still in WORK_DIR *)
C21_Witness ==
    /\ f_pc = "scan" /\ f_cur \in Requests
    /\ Cardinality(UnitsOf(f_cur)) > 1
    /\ \A u \in UnitsOf(f_cur) : loc[u] = HPSS_DIR

(* the step in which the Retriever's quota check defers unit u *)
Defers(u) == r_deferred # u /\ r_deferred' = u

(* the step in which the Retriever stages unit u *)
Admits(u) == ~staged[u] /\ staged'[u]

(* C22: when the Retriever reaches a work unit with staged_bytes +         *)
(* unit.size > TRANSFER_QUOTA it ends the cycle at once: that unit and     *)
(* every entry not yet visited stay untouched in the inbox, and no unit is *)
(* admitted later in that cycle; a unit is staged only within the quota.   *)
C22_QuotaEndsCycle ==
    [][\A u \in Units :
          /\ Defers(u) =>
                 /\ calculate_directory_size + Size(u) > space_allowed
                 /\ r_todo' = {}
                 /\ loc' = loc /\ staged' = staged /\ valid' = valid
          /\ Admits(u) =>
                 /\ calculate_directory_size + Size(u) <= space_allowed
                 /\ r_deferred = 0]_vars

(* the cycle ended on a unit that does not fit while a smaller unit that   *)
(* would fit is still in the inbox                                         *)
C22_Witness ==
    /\ r_pc = "loop" /\ r_todo = {} /\ r_deferred \in Units
    /\ loc[r_deferred] = HPSS_DIR
    /\ \E v \in Units :
           /\ Size(v) < Size(r_deferred)
           /\ loc[v] = HPSS_DIR /\ valid[v] /\ ~staged[v]
           /\ calculate_directory_size + Size(v) <= space_allowed

Waiting == {"ACTIVE", "INACTIVE"}
Failing == (Status \ (Waiting \cup {"SUCCEEDED"})) \cup (Code \ {"Accepted"})

(* the step in which the Transferrer is done with the unit it processes *)
ProcessWorkEnds ==
    /\ t_pc \in {"files", "write"} /\ t_pc' = "loop"
    /\ kills' = kills

(* C24: a Transferrer cycle in which some WorkFile's task reports ACTIVE   *)
(* or INACTIVE and none reports a failure leaves the work unit in the      *)
(* Transferrer inbox, neither quarantined nor forwarded, with its task ids *)
(* in the JSON so that the next cycle polls it again; this holds for every *)
(* such cycle, however many follow one another.                            *)
C24_WaitingStaysInInbox ==
    [][(/\ ProcessWorkEnds
        /\ t_seen' \cap Waiting # {}
        /\ t_seen' \cap Failing = {}) =>
           /\ loc'[t_cur] = GLOBUS_DIR /\ valid'[t_cur]
           /\ t_mem # {} /\ t_mem \subseteq ids'[t_cur]]_vars

(* a unit of two files is back in the inbox after a cycle in which one     *)
(* task had SUCCEEDED and the other was INACTIVE                           *)
C24_Witness ==
    /\ t_pc = "loop" /\ t_seen = {"SUCCEEDED", "INACTIVE"}
    /\ \E u \in Units :
           /\ NFiles(u) > 1 /\ loc[u] = GLOBUS_DIR /\ valid[u]
           /\ ids[u] = Files(u)
           /\ \A v \in Units \ {u} : NFiles(v) = 1

(* the step in which a status poll of the unit in hand answers `status` *)
Answers(status) == status \notin t_seen /\ status \in t_seen'

(* C25: when the status poll of a WorkFile returns FAILED or any status    *)
(* other than ACTIVE, INACTIVE and SUCCEEDED, the Transferrer moves the    *)
(* whole unit to its quarantine in that cycle and leaves the staged        *)
(* directory in place; a quarantined unit is never forwarded to the        *)
(* Reaper and keeps its staged directory.                                  *)
C25_FailedPollQuarantines ==
    [][/\ \A status \in Status \ (Waiting \cup {"SUCCEEDED"}) :
              Answers(status) =>
                  /\ loc[t_cur] = GLOBUS_DIR /\ loc'[t_cur] = Q_GLOBUS
                  /\ staged[t_cur] /\ staged'[t_cur]
                  /\ t_pc' = "loop"
       /\ \A u \in Units :
              loc[u] = Q_GLOBUS =>
                  loc'[u] = Q_GLOBUS /\ staged'[u] = staged[u]]_vars

(* a unit of two files is in quarantine with its directory after the poll  *)
(* of one file said SUCCEEDED and the poll of the other FAILED             *)
C25_Witness ==
    /\ t_seen = {"SUCCEEDED", "FAILED"}
    /\ \E u \in Units : NFiles(u) > 1 /\ loc[u] = Q_GLOBUS /\ staged[u]
    /\ \A u \in Units : NFiles(u) = 1 => loc[u] # Q_GLOBUS

(* C26: when a transfer submission returns a code other than "Accepted",   *)
(* the Transferrer fails the whole unit (it goes to quarantine) and stamps *)
(* no globus_task_id on that WorkFile; a task id, in memory or in the      *)
(* JSON, comes only from a response whose code is "Accepted".              *)
C26_OnlyAcceptedIsStamped ==
    [][/\ \A code \in Code \ {"Accepted"} :
              Answers(code) =>
                  /\ loc[t_cur] = GLOBUS_DIR /\ loc'[t_cur] = Q_GLOBUS
                  /\ submits' = submits /\ ids' = ids
                  /\ t_i \notin ids'[t_cur] /\ t_mem' = {}
       /\ \A u \in Units : \A f \in Files(u) :
              /\ f \in ids'[u] => submits'[u][f] >= 1
              /\ (t_cur' = u /\ f \in t_mem') => submits'[u][f] >= 1]_vars

(* the first file of a unit was accepted, the second was not: the unit is  *)
(* in quarantine and its JSON holds no task id                             *)
C26_Witness ==
    /\ t_seen = {"Accepted", "Rejected"}
    /\ \E u \in Units :
           /\ NFiles(u) > 1 /\ loc[u] = Q_GLOBUS /\ ids[u] = {}
           /\ submits[u][1] = 1 /\ submits[u][2] = 0

(* C27: after a Transferrer cycle that completes without error and in      *)
(* which at least one WorkFile was newly stamped, the work-unit JSON at    *)
(* its canonical path in the Transferrer inbox contains every              *)
(* globus_task_id stamped so far, so that a later cycle loads the ids and  *)
(* polls instead of submitting again.                                      *)
C27_StampedIdsArePersisted ==
    [][/\ (/\ ProcessWorkEnds
           /\ "Accepted" \in t_seen'
           /\ t_seen' \cap Failing = {}) =>
              /\ loc'[t_cur] = GLOBUS_DIR /\ valid'[t_cur]
              /\ t_mem # {} /\ t_mem \subseteq ids'[t_cur]
       /\ kills' = 0 =>
              \A u \in Units : \A f \in Files(u) : submits'[u][f] <= 1]_vars

(* the rewritten JSON holds no task id and a later cycle of a process that *)
(* was never killed has submitted the same file again                      *)
C27_Witness ==
    /\ kills = 0 /\ file_fields = TaccSyncFileDeclared
    /\ \E u \in Units : \E f \in Files(u) :
           /\ submits[u][f] = 2
           /\ loc[u] = GLOBUS_DIR /\ valid[u] /\ ids[u] = {}

(* the Transferrer is inside rewrite_work_unit for unit u *)
Rewriting(u) == t_cur = u /\ t_pc \in {"create", "write"}

(* C28: after a successful rewrite of a work unit by the Transferrer the   *)
(* <path>.safety copy has been removed: a .safety file exists only while   *)
(* rewrite_work_unit is running for its unit, and none remains once the    *)
(* unit has been forwarded to the Reaper.                                  *)
C28_SafetyCopyRemoved ==
    \A u \in Units :
        /\ safety[u] => Rewriting(u)
        /\ loc[u] \in {REAPER_DIR, WORK_FINISHED} => ~safety[u]

(* the unit is in the Reaper inbox and its .safety copy is still in the    *)
(* Transferrer inbox                                                       *)
C28_Witness ==
    \E u \in Units : loc[u] = REAPER_DIR /\ safety[u] /\ ids[u] = Files(u)

(* C29: if the Transferrer is killed after renaming a unit to              *)
(* <path>.safety and before the new canonical file exists, then on restart *)
(* the .safety file is moved back to the canonical path: the unit is again *)
(* a .json entry of the Transferrer inbox and is never left permanently    *)
(* outside every .json queue.                                              *)
C29_SafetySweptOnRestart ==
    \A u \in Units : MidRewrite(u) ~> (loc[u] # ABSENT)

(* the restarted Transferrer is idle in its main loop, the unit exists     *)
(* only as its .safety copy and the Retriever defers the next unit because *)
(* the stranded unit's directory fills the transfer buffer                 *)
C29_Witness ==
    /\ kills > 0 /\ t_pc = "loop" /\ t_todo = {}
    /\ \E u \in Units :
           /\ MidRewrite(u) /\ staged[u]
           /\ r_deferred \in Units \ {u}

(* C30: the Reaper removes TRANSFER_DIR/<work_id>/ before it forwards the  *)
(* unit's JSON: a unit whose JSON is in the work-finished directory has no *)
(* staged directory, and none was left at the step that moved it there.    *)
C30_RemovedBeforeForwarded ==
    [][\A u \in Units :
          loc'[u] = WORK_FINISHED =>
              /\ ~staged'[u]
              /\ loc[u] # WORK_FINISHED =>
                     (loc[u] = REAPER_DIR /\ ~staged[u])]_vars

(* a unit is in the work-finished directory, its directory is gone and the *)
(* directory of the next unit is staged                                    *)
C30_Witness ==
    \E u \in Units :
        /\ loc[u] = WORK_FINISHED /\ ~staged[u]
        /\ \E v \in Units \ {u} : staged[v] /\ loc[v] = GLOBUS_DIR

(* the content of <work_id>.json differs before and after the step *)
ContentChanged(u) == valid'[u] # valid[u] \/ ids'[u] # ids[u]

(* File::create of a unit that did not exist: the Planner writes a new file *)
NewlyCreated(u) == ~Written(u) /\ loc'[u] = HPSS_DIR

(* C31: only the Transferrer changes the content of a work-unit JSON, and  *)
(* only by adding globus_task_id values that were absent: a step of the    *)
(* Retriever, the Reaper or the Finisher leaves every work-unit file's     *)
(* content as it was, a step of the Finisher leaves every work-unit file   *)
(* where it was, and a globus_task_id that is in the JSON stays in it.     *)
C31_OnlyTransferrerStamps ==
    [][/\ \A u \in Units :
            /\ ContentChanged(u) =>
                   (rVars' = rVars /\ xVars' = xVars /\ fVars' = fVars)
            /\ (ContentChanged(u) /\ ~NewlyCreated(u) /\ pVars' # pVars) =>
                   (ids'[u] = ids[u] /\ loc[u] # GLOBUS_DIR)
            /\ NewlyCreated(u) \/ ids[u] \subseteq ids'[u]
       /\ fVars' # fVars => (loc' = loc /\ safety' = safety)]_vars

(* a stamped unit has been handled by the Reaper and its request retired   *)
(* by the Finisher with every globus_task_id still in the JSON             *)
C31_Witness ==
    \E u \in Units :
        /\ loc[u] = WORK_FINISHED /\ valid[u] /\ ids[u] = Files(u)
        /\ reqLoc[ReqOf(u)] = FINISHED

(* main quarantines the unit because process_work returned Err *)
QuarantinedOnError(u) ==
    t_pc = "files" /\ t_cur = u /\ loc[u] = GLOBUS_DIR /\ loc'[u] = Q_GLOBUS

(* the files whose transfer was submitted during the running cycle *)
StampedInMemory(u) == IF t_cur = u THEN t_mem \ ids[u] ELSE {}

(* C32: a unit the Transferrer quarantines because one of its files failed *)
(* is the file that was in the inbox when the cycle loaded it: nothing is  *)
(* rewritten between the load and the move, no .safety copy is made, and   *)
(* the task ids stamped in memory earlier in that cycle are in no file.    *)
C32_QuarantinedAsLoaded ==
    [][\A u \in Units :
           /\ (t_pc = "files" /\ t_cur = u) =>
                  (/\ ids'[u] = ids[u] /\ valid'[u] = valid[u]
                   /\ safety'[u] = safety[u])
           /\ QuarantinedOnError(u) =>
                  (/\ ids'[u] \cap StampedInMemory(u) = {}
                   /\ loc'[u] # ABSENT /\ t_mem' = {})]_vars

(* a two-file unit is quarantined after its first transfer was accepted: *)
(* the submission left no trace in the quarantined JSON                  *)
C32_Witness ==
    \E u \in Units :
        /\ loc[u] = Q_GLOBUS /\ valid[u] /\ ids[u] = {} /\ ~safety[u]
        /\ NFiles(u) > 1 /\ submits[u][1] = 1 /\ submits[u][2] = 0
        /\ t_seen = {"Accepted", "Rejected"}

(* a transfer of one of the unit's files was submitted in the cycle that *)
(* ends with the step                                                    *)
SubmittedInCycle(u) == t_cur = u /\ (t_updated > 0 \/ "Accepted" \in t_seen')

(* C33: a unit with at least one file is not forwarded to the Reaper inbox *)
(* in a Transferrer cycle that submitted one of its files: the cycle that  *)
(* forwards it submitted nothing, rewrote nothing, began with every file   *)
(* already stamped on disk, and polled every file with the answer          *)
(* SUCCEEDED. A unit with no files is done after zero polls.               *)
C33_NoForwardInSubmittingCycle ==
    [][\A u \in Units :
           Forwarded(u) =>
               /\ ~SubmittedInCycle(u)
               /\ t_pc = "files" /\ t_cur = u
               /\ ids[u] = Files(u) /\ \A f \in Files(u) : submits[u][f] > 0
               /\ t_polled' = Files(u) /\ t_seen' = {"SUCCEEDED"}
               /\ AllFinished(0, 0)]_vars

(* a two-file unit reached the Reaper inbox in a cycle of polls only, each *)
(* of its files having been submitted once in an earlier cycle             *)
C33_Witness ==
    \E u \in Units :
        /\ loc[u] = REAPER_DIR /\ NFiles(u) > 1
        /\ \A f \in Files(u) : submits[u][f] = 1
        /\ t_pc = "loop" /\ t_polled = Files(u) /\ t_seen = {"SUCCEEDED"}

(* the unit is in the Reaper inbox without its staged directory and no *)
(* Reaper process is between the removal and the move                  *)
Stranded(u) ==
    loc[u] = REAPER_DIR /\ valid[u] /\ ~staged[u] /\ ~BeingReaped(u)

(* a running Reaper takes the unit from its listing *)
ReaperReaches(u) ==
    x_pc = "loop" /\ u \in x_todo /\ u \notin x_todo' /\ kills' = kills

(* C34: the Reaper moves a unit to the work-finished directory only in the *)
(* step after it removed TRANSFER_DIR/<work_id>/. A unit in the Reaper     *)
(* inbox whose staged directory is gone, as after a kill between the       *)
(* removal and the move, stays there: every Reaper that reaches it, the    *)
(* restarted ones included, aborts at it.                                  *)
C34_ReaperAbortsOnMissingDirectory ==
    [][\A u \in Units :
           /\ (loc[u] = REAPER_DIR /\ loc'[u] = WORK_FINISHED) =>
                  (BeingReaped(u) /\ ~staged[u])
           /\ Stranded(u) => Stranded(u)'
           /\ (Stranded(u) /\ ReaperReaches(u)) => x_pc' = "aborted"]_vars

(* the Reaper was killed between the removal and the move, and a later *)
(* Reaper has aborted at the unit                                      *)
C34_Witness ==
    \E u \in Units : Stranded(u) /\ kills > 0 /\ x_pc = "aborted"

(* work.size of the unit is greater than the whole transfer quota *)
Oversized(u) == Size(u) > space_allowed

(* C35: a work unit whose size is greater than TRANSFER_QUOTA is never     *)
(* staged and never quarantined: once written it is in the Retriever inbox *)
(* in every reachable state, and no Retriever cycle goes on past it.       *)
C35_OversizedStaysInInbox ==
    \A u \in Units :
        (Oversized(u) /\ Written(u)) =>
            /\ loc[u] = HPSS_DIR /\ ~staged[u]
            /\ (r_deferred = u => r_todo = {})

(* an oversized unit lies complete in the Retriever's quarantine *)
C35_Witness ==
    \E u \in Units : Oversized(u) /\ loc[u] = Q_RETRIEVER /\ valid[u]

(* the directory that holds the unit's file, under either of its names *)
DirOf(u) == IF MidRewrite(u) THEN GLOBUS_DIR ELSE loc[u]

(* the step takes the unit's file from one directory to another *)
Moved(u) == Written(u) /\ DirOf(u)' # DirOf(u)

(* the stage-to-stage moves and the moves into a stage's quarantine *)
ForwardMoves ==
    {<<HPSS_DIR, GLOBUS_DIR>>, <<GLOBUS_DIR, REAPER_DIR>>,
     <<REAPER_DIR, WORK_FINISHED>>, <<HPSS_DIR, Q_RETRIEVER>>,
     <<GLOBUS_DIR, Q_GLOBUS>>, <<REAPER_DIR, Q_REAPER>>}

FinalDirs == {WORK_FINISHED, Q_RETRIEVER, Q_GLOBUS, Q_REAPER}

(* C36: work-unit JSON files only move forward: every move of a unit from  *)
(* one directory to another is Retriever inbox to Transferrer inbox,       *)
(* Transferrer inbox to Reaper inbox, Reaper inbox to work-finished, or a  *)
(* stage's inbox to that stage's quarantine; a unit in work-finished or in *)
(* a quarantine stays there, no unit is deleted, and what moves is the     *)
(* file named <work_id>.json, which has that name after the move.          *)
C36_UnitsOnlyMoveForward ==
    [][\A u \in Units :
           /\ Moved(u) =>
                  /\ <<DirOf(u), DirOf(u)'>> \in ForwardMoves
                  /\ loc[u] # ABSENT /\ loc'[u] # ABSENT
           /\ Written(u) => Written(u)'
           /\ loc[u] \in FinalDirs => loc'[u] = loc[u]]_vars

(* one unit has gone through every stage to work-finished and the other *)
(* lies in a quarantine                                                 *)
C36_Witness ==
    \E u, v \in Units :
        /\ loc[u] = WORK_FINISHED /\ \A f \in Files(u) : submits[u][f] > 0
        /\ loc[v] \in FinalDirs \ {WORK_FINISHED}

(* the hpss paths of the files of one work unit *)
PathsOf(work) == {work.files[k].hpss_path : k \in 1..Len(work.files)}

(* hsi lists every file of the request once *)
ListedOnce ==
    \A m, n \in 1..Len(file_metadata) :
        (/\ m # n
         /\ file_metadata[m].tag = "FILE" /\ file_metadata[n].tag = "FILE")
            => file_metadata[m].hpss_path # file_metadata[n].hpss_path

(* C37: each request is planned at most once: whatever aborts and restarts *)
(* of the Planner happen while the request is in its inbox, no file of the *)
(* request is in more than one of the work units written to WORK_DIR.      *)
C37_PlannedAtMostOnce ==
    ListedOnce =>
        \A i, j \in 1..Len(work_dir) :
            i # j => PathsOf(work_dir[i]) \cap PathsOf(work_dir[j]) = {}

(* a restarted Planner has forwarded the request, and WORK_DIR holds more *)
(* work units than the request has tape groups                            *)
C37_Witness ==
    /\ ListedOnce /\ kills > 0 /\ pl_pc = "forwarded"
    /\ Len(work_dir) > Len(tape_groups)

====
